---- MODULE Spec2Model ----
(***************************************************************************)
(* CaptureObjectsBehavior (VCAI / Nullkiller): the goal generator that     *)
(* turns map objects and pathfinder paths into ExecuteHeroChain and        *)
(* Composition goals.  Modelled from                                       *)
(*   src/AI/VCAI/Behaviors/CaptureObjectsBehavior.cpp                      *)
(* Four specifications share the module:                                   *)
(*   Spec       decompose() over the object pools                          *)
(*   SpecGoals  getVisitGoals() over every batch of paths to one object    *)
(*   SpecEq     operator== over pairs of behaviours                        *)
(*   SpecVisit  shouldVisit(hero, object) over the object types            *)
(***************************************************************************)
EXTENDS Integers, Sequences, FiniteSets, TLC

VARIABLES
    \* --- the behaviour (members of CaptureObjectsBehavior)
    specificObjects,    \* bool: explicit mode
    objectsToCapture,   \* vector of objects (explicit mode)
    objectTypes,        \* vector<int> of accepted obj->ID
    objectSubTypes,     \* vector<int> of accepted obj->subID
    \* --- the object clusterizer (external, read-only)
    nearbyObjects,
    farObjects,
    \* --- decompose(): position and locals
    pc,                 \* "idle" | "begin" | "scan" | "done"
    pool,               \* which vector captureObjects is scanning
    objs,               \* the vector handed to captureObjects
    idx,                \* loop position in objs
    tasks,              \* decompose()'s TGoalVec
    requested,          \* objects handed to pathfinder->getPathInfo
    consulted,          \* clusterizer queries made so far
    \* --- getVisitGoals(): argument and result
    paths,
    visitGoals,
    gpc,                \* "idle" | "call" | "ret"
    \* --- operator==: the two operands and the result
    lhs,
    rhs,
    epc,                \* "idle" | "call" | "ret"
    eqResult,
    \* --- shouldVisit: the (hero, object, game state) and the result
    query,
    vpc,                \* "idle" | "call" | "ret"
    visitResult

vars == << specificObjects, objectsToCapture, objectTypes, objectSubTypes,
           nearbyObjects, farObjects, pc, pool, objs, idx, tasks, requested,
           consulted, paths, visitGoals, gpc, lhs, rhs, epc, eqResult,
           query, vpc, visitResult >>

behaviourVars == << specificObjects, objectsToCapture, objectTypes, objectSubTypes >>
decomposeVars == << nearbyObjects, farObjects, pc, pool, objs, idx, tasks,
                    requested, consulted >>
goalsVars == << paths, visitGoals, gpc >>
eqVars == << lhs, rhs, epc, eqResult >>
visitVars == << query, vpc, visitResult >>

(***************************************************************************)
(* Bounds of the model.                                                    *)
(***************************************************************************)
NumObjs == 2        \* map objects 1..NumObjs
MaxPaths == 2       \* longest batch of paths handed to getVisitGoals
MaxCost == 2        \* movement costs 1..MaxCost
MaxListLen == 2     \* longest vector compared by operator==

RECURSIVE Gcd(_, _)
Gcd(a, b) == IF b = 0 THEN a ELSE Gcd(b, a % b)

\* Sequences over S of length at most n.
SeqsUpTo(S, n) == UNION { [1..k -> S] : k \in 0..n }

Contains(v, x) == \E i \in 1..Len(v) : v[i] = x

Range(v) == { v[i] : i \in 1..Len(v) }

(***************************************************************************)
(* Paths.  An AIPath as getVisitGoals reads it: its own data (cost, total  *)
(* danger, exchange count, first blocked action) and the answers the       *)
(* collaborators give about it.                                            *)
(*   canKill   dangerHitMap->enemyCanKillOurHeroesAlongThePath(path)       *)
(*   visit     shouldVisit(path.targetHero, objToVisit)                    *)
(*   role      heroManager->getHeroRole(path.targetHero)                   *)
(*   blocked   "none": getFirstBlockedAction() is null; "invalid"/"valid": *)
(*             the action's decompose() gives an Invalid / a usable goal   *)
(*   safe      isSafeToVisit(hero, path.heroArmy, danger)                  *)
(*   locked    nullkiller->arePathHeroesLocked(path)                       *)
(***************************************************************************)
Roles == {"SCOUT", "MAIN"}
DangerLevels == {0, 1}
ExchangeCounts == {1, 2}
BlockedKinds == {"none", "invalid", "valid"}

AllPaths ==
    [ cost : 1..MaxCost, canKill : BOOLEAN, visit : BOOLEAN, role : Roles,
      danger : DangerLevels, exchangeCount : ExchangeCounts,
      blocked : BlockedKinds, safe : BOOLEAN, locked : BOOLEAN ]

EnemyCanKill(path) == path.canKill

\* Variant: the scout rule is never applied.
ScoutSkipsNever(path) == FALSE

\* getHeroRole(hero) == HeroRole::SCOUT && danger == 0 && path.exchangeCount > 1
ScoutSkips(path) ==
    path.role = "SCOUT" /\ path.danger = 0 /\ path.exchangeCount > 1

IsSafeToVisit(path) == path.safe

ArePathHeroesLocked(path) == path.locked

\* A field the loop body never reads for this path (it has hit `continue`,
\* or `&&` has short-circuited) is held at one value: the paths that differ
\* only in such a field are the same input to the code and to the claims.
\* The claims read safe and locked of a blocked path with a usable sub-goal,
\* so those stay free.
Normal(p) ==
    /\ p.canKill =>
          /\ p.visit /\ p.role = "MAIN" /\ p.danger = 0
    /\ (p.canKill \/ ~p.visit) =>
          /\ p.role = "MAIN" /\ p.danger = 0
    /\ (p.role = "MAIN" \/ p.danger # 0) => p.exchangeCount = 1
    /\ (p.canKill \/ ~p.visit \/ p.exchangeCount > 1) => p.blocked = "none"
    /\ (p.canKill \/ ~p.visit \/ p.exchangeCount > 1 \/ p.blocked = "invalid") =>
          /\ p.safe /\ ~p.locked
    /\ (p.blocked = "none" /\ ~p.safe) => ~p.locked

PathDomain == { p \in AllPaths : Normal(p) }

(***************************************************************************)
(* Goals.  Invalid, ExecuteHeroChain (a route to an object with its        *)
(* closestWayRatio) and Composition (an ordered list of goals).            *)
(***************************************************************************)
NoObject == 0       \* objToVisit == nullptr

Invalid == [kind |-> "Invalid"]

\* What a blocking special action's decompose() gives when it is usable.
SubGoal == [kind |-> "SubGoal"]

\* closestWay->movementCost() / way->getPath().movementCost(): a division
\* of two movement costs, kept exact as the fraction in lowest terms.
Ratio(m, c) == << m \div Gcd(m, c), c \div Gcd(m, c) >>

One == << 1, 1 >>

\* A freshly constructed ExecuteHeroChain carries the neutral ratio 1 until
\* getVisitGoals overwrites it.
ExecuteHeroChain(path, obj) ==
    [kind |-> "ExecuteHeroChain", path |-> path, obj |-> obj,
     closestWayRatio |-> One]

\* Composition().addNext(first).addNext(second)
Composition(first, second) ==
    [kind |-> "Composition", subtasks |-> << first, second >>]

IsInvalid(task) == task.kind = "Invalid"

(***************************************************************************)
(* getVisitGoals(paths, objToVisit).  The loop state is                    *)
(*   tasks           the result so far, one entry per path seen            *)
(*   closestWay      index into paths of the cheapest safe path, 0 = null  *)
(*   waysToVisitObj  indices of the entries that are standalone routes     *)
(***************************************************************************)
LoopStart == [tasks |-> << >>, closestWay |-> 0, waysToVisitObj |-> << >>]

\* Variants of the comparison: only the first safe path is ever taken; the
\* comparison is turned round.
IsCloserFirstOnly(batch, closestWay, path) == closestWay = 0

IsCloserTurned(batch, closestWay, path) ==
    closestWay = 0 \/ batch[closestWay].cost < path.cost

\* !closestWay || closestWay->movementCost() > path.movementCost()
IsCloser(batch, closestWay, path) ==
    closestWay = 0 \/ batch[closestWay].cost > path.cost

\* Variant: the lock is not looked at.
EmitsRouteAlways(path) == TRUE

\* if(!ai->nullkiller->arePathHeroesLocked(path)): the route is emitted
EmitsRoute(path) == ~ArePathHeroesLocked(path)

\* The branch taken on a blocked path: the composition, or nothing.
BlockedGoal(path, objToVisit) ==
    IF path.blocked = "valid"
    THEN Composition(ExecuteHeroChain(path, objToVisit), SubGoal)
    ELSE Invalid

\* One iteration of the loop body for paths[i].
VisitPath(batch, st, i, objToVisit) ==
    LET path == batch[i]
        pushed == [st EXCEPT !.tasks = Append(@, Invalid)]
    IN  IF EnemyCanKill(path) THEN pushed
        ELSE IF objToVisit # NoObject /\ ~path.visit THEN pushed
        ELSE IF ScoutSkips(path) THEN pushed
        ELSE IF path.blocked # "none"
             THEN [pushed EXCEPT !.tasks[i] = BlockedGoal(path, objToVisit)]
        ELSE IF IsSafeToVisit(path)
             THEN LET closest == IF IsCloser(batch, st.closestWay, path)
                                 THEN i ELSE st.closestWay
                  IN  IF EmitsRoute(path)
                      THEN [tasks |-> [pushed.tasks EXCEPT
                                         ![i] = ExecuteHeroChain(path, objToVisit)],
                            closestWay |-> closest,
                            waysToVisitObj |-> Append(st.waysToVisitObj, i)]
                      ELSE [pushed EXCEPT !.closestWay = closest]
        ELSE pushed

RECURSIVE VisitPaths(_, _, _, _)
VisitPaths(batch, st, i, objToVisit) ==
    IF i > Len(batch) THEN st
    ELSE VisitPaths(batch, VisitPath(batch, st, i, objToVisit), i + 1, objToVisit)

\* for(auto way : waysToVisitObj) way->closestWayRatio = ... / ...
AssignRatios(batch, st) ==
    [ k \in 1..Len(st.tasks) |->
        IF Contains(st.waysToVisitObj, k)
        THEN [st.tasks[k] EXCEPT
                !.closestWayRatio =
                    Ratio(batch[st.closestWay].cost, st.tasks[k].path.cost)]
        ELSE st.tasks[k] ]

GetVisitGoals(batch, objToVisit) ==
    AssignRatios(batch, VisitPaths(batch, LoopStart, 1, objToVisit))

(***************************************************************************)
(* SpecGoals: getVisitGoals on every batch of paths to one object.         *)
(***************************************************************************)
TargetObject == 1

IdleBehaviour ==
    /\ specificObjects = FALSE
    /\ objectsToCapture = << >>
    /\ objectTypes = << >>
    /\ objectSubTypes = << >>

IdleDecompose ==
    /\ nearbyObjects = << >>
    /\ farObjects = << >>
    /\ pc = "idle"
    /\ pool = "none"
    /\ objs = << >>
    /\ idx = 1
    /\ tasks = << >>
    /\ requested = << >>
    /\ consulted = << >>

IdleGoals ==
    /\ paths = << >>
    /\ visitGoals = << >>
    /\ gpc = "idle"

IdleEq ==
    /\ lhs = << >>
    /\ rhs = << >>
    /\ epc = "idle"
    /\ eqResult = FALSE

IdleVisit ==
    /\ query = << >>
    /\ vpc = "idle"
    /\ visitResult = FALSE

InitGoals ==
    /\ IdleBehaviour /\ IdleDecompose /\ IdleEq /\ IdleVisit
    /\ \E n \in 0..MaxPaths : paths \in [1..n -> PathDomain]
    /\ visitGoals = << >>
    /\ gpc = "call"

CallGetVisitGoals ==
    /\ gpc = "call"
    /\ visitGoals' = GetVisitGoals(paths, TargetObject)
    /\ gpc' = "ret"
    /\ UNCHANGED << paths, behaviourVars, decomposeVars, eqVars, visitVars >>

NextGoals == CallGetVisitGoals

SpecGoals == InitGoals /\ [][NextGoals]_vars

(***************************************************************************)
(* Properties of getVisitGoals (SpecGoals).                                *)
(***************************************************************************)
IsRoute(task) == task.kind = "ExecuteHeroChain"

IsComposition(task) == task.kind = "Composition"

\* The paths of the batch that passed the danger, shouldVisit, scout,
\* no-blocked-action and isSafeToVisit checks (locked or not).
PassedAll(path) ==
    /\ ~path.canKill
    /\ path.visit
    /\ ~(path.role = "SCOUT" /\ path.danger = 0 /\ path.exchangeCount > 1)
    /\ path.blocked = "none"
    /\ path.safe

AcceptedCosts(batch) ==
    { batch[i].cost : i \in { j \in 1..Len(batch) : PassedAll(batch[j]) } }

RouteCosts(ts) ==
    { ts[k].path.cost : k \in { j \in 1..Len(ts) : IsRoute(ts[j]) } }

IsMinOf(c, S) == c \in S /\ \A d \in S : c <= d

Returned == gpc = "ret"

\* C3 as stated: when a standalone route is emitted, the routes of ratio 1
\* are exactly those of minimal cost among the emitted routes, so at least
\* one emitted route has ratio 1.
C3_RatioOneIsCheapestEmitted ==
    Returned =>
        \A k \in 1..Len(visitGoals) :
            IsRoute(visitGoals[k]) =>
                ( visitGoals[k].closestWayRatio = One
                    <=> IsMinOf(visitGoals[k].path.cost, RouteCosts(visitGoals)) )

\* C3 amended: the routes of ratio 1 are exactly those whose cost is minimal
\* among all the paths that passed the checks, locked or not; some emitted
\* route has ratio 1 whenever a cheapest such path is not locked.
C3_RatioOneIsCheapestAccepted ==
    Returned =>
        /\ \A k \in 1..Len(visitGoals) :
              IsRoute(visitGoals[k]) =>
                  ( visitGoals[k].closestWayRatio = One
                      <=> IsMinOf(visitGoals[k].path.cost, AcceptedCosts(paths)) )
        /\ ( \E i \in 1..Len(paths) :
                /\ PassedAll(paths[i]) /\ ~paths[i].locked
                /\ IsMinOf(paths[i].cost, AcceptedCosts(paths)) )
           => \E k \in 1..Len(visitGoals) :
                 IsRoute(visitGoals[k]) /\ visitGoals[k].closestWayRatio = One

\* Two emitted routes of different cost: one of ratio 1, one below 1.
C3_Witness ==
    /\ Returned
    /\ \E k, l \in 1..Len(visitGoals) :
          /\ IsRoute(visitGoals[k]) /\ IsRoute(visitGoals[l])
          /\ visitGoals[k].closestWayRatio = One
          /\ visitGoals[l].closestWayRatio # One

\* C4: every emitted route has ratio m / cost, m the least cost among the
\* paths that passed the checks (locked or not); the ratio is in (0, 1].
C4_RatioIsMinOverCost ==
    Returned =>
        \A k \in 1..Len(visitGoals) :
            IsRoute(visitGoals[k]) =>
                LET r == visitGoals[k].closestWayRatio
                    c == visitGoals[k].path.cost
                IN  /\ r[2] > 0
                    /\ \E m \in AcceptedCosts(paths) :
                          /\ IsMinOf(m, AcceptedCosts(paths))
                          /\ r[1] * c = r[2] * m
                    /\ 0 < r[1]
                    /\ r[1] <= r[2]

\* An emitted route whose ratio is below 1 because a locked path is cheaper.
C4_Witness ==
    /\ Returned
    /\ \E k \in 1..Len(visitGoals) :
          /\ IsRoute(visitGoals[k])
          /\ visitGoals[k].closestWayRatio # One
          /\ \A l \in 1..Len(visitGoals) :
                IsRoute(visitGoals[l]) =>
                    visitGoals[l].path.cost >= visitGoals[k].path.cost

\* C10: no standalone route is built from a locked path; a locked path shows
\* up only inside a Composition made for a blocked path with a usable
\* sub-goal, and that Composition is the route first, the sub-goal second.
C10_LockedOnlyInComposition ==
    Returned =>
        /\ Len(visitGoals) = Len(paths)
        /\ \A k \in 1..Len(visitGoals) :
              /\ IsRoute(visitGoals[k]) =>
                    /\ visitGoals[k].path = paths[k]
                    /\ ~paths[k].locked
              /\ IsComposition(visitGoals[k]) =>
                    /\ paths[k].blocked = "valid"
                    /\ Len(visitGoals[k].subtasks) = 2
                    /\ IsRoute(visitGoals[k].subtasks[1])
                    /\ visitGoals[k].subtasks[1].path = paths[k]
                    /\ visitGoals[k].subtasks[2] = SubGoal
              /\ (paths[k].locked /\ ~IsInvalid(visitGoals[k])) =>
                    IsComposition(visitGoals[k])

\* A Composition built from a locked path, next to a locked safe path that
\* produced nothing.
C10_Witness ==
    /\ Returned
    /\ \E k, l \in 1..Len(visitGoals) :
          /\ IsComposition(visitGoals[k]) /\ paths[k].locked
          /\ IsInvalid(visitGoals[l]) /\ paths[l].locked /\ PassedAll(paths[l])

(***************************************************************************)
(* decompose().  The map objects are 1..NumObjs; an object's ID and subID  *)
(* are fixed by the map.                                                   *)
(***************************************************************************)
Objs == 1..NumObjs

ObjID(obj) == obj % 2

ObjSubID(obj) == (obj \div 2) % 2

TypeCodes == {0, 1}

FilterLists == { << >> } \cup { << t >> : t \in TypeCodes }

\* The vectors of objects, one per set of objects, in ascending order.
RECURSIVE Ascending(_)
Ascending(S) ==
    IF S = {} THEN << >>
    ELSE LET m == CHOOSE x \in S : \A y \in S : x <= y
         IN  << m >> \o Ascending(S \ {m})

ObjLists == { Ascending(S) : S \in SUBSET Objs }

\* What pathfinder->getPathInfo(pos) hands back in this specification: no
\* path, or one path of cost 1 and danger 0 of each shape the loop body
\* distinguishes.
PathInfoSamples ==
    { << >> } \cup { << p >> : p \in { q \in PathDomain : q.cost = 1 /\ q.danger = 0 } }

\* Variant: the subtype filter is forgotten.
ShouldVisitObjectTypeOnly(obj) ==
    ~(Len(objectTypes) # 0 /\ ~Contains(objectTypes, ObjID(obj)))

\* CaptureObjectsBehavior::shouldVisitObject
ShouldVisitObject(obj) ==
    IF Len(objectTypes) # 0 /\ ~Contains(objectTypes, ObjID(obj)) THEN FALSE
    ELSE IF Len(objectSubTypes) # 0 /\ ~Contains(objectSubTypes, ObjSubID(obj)) THEN FALSE
    ELSE TRUE

\* Variant: nothing is erased.
EraseNothing(ts) == ts

\* vstd::erase_if(tasks, task->invalid())
EraseInvalid(ts) == SelectSeq(ts, LAMBDA t : ~IsInvalid(t))

\* Variant: the far objects are always scanned.
TasksEmptyAlways(ts) == TRUE

\* if(tasks.empty()) after the nearby objects were scanned
TasksEmpty(ts) == ts = << >>

Init ==
    /\ IdleGoals /\ IdleEq /\ IdleVisit
    /\ specificObjects \in BOOLEAN
    /\ objectTypes \in FilterLists
    /\ objectSubTypes \in FilterLists
    /\ IF specificObjects
       THEN /\ objectsToCapture \in ObjLists
            /\ nearbyObjects = Ascending(Objs)
            /\ farObjects = Ascending(Objs)
       ELSE /\ objectsToCapture = << >>
            /\ nearbyObjects \in ObjLists
            /\ farObjects \in ObjLists
    /\ pc = "begin"
    /\ pool = "none"
    /\ objs = << >>
    /\ idx = 1
    /\ tasks = << >>
    /\ requested = << >>
    /\ consulted = << >>

\* if(specificObjects) captureObjects(objectsToCapture);
BeginExplicit ==
    /\ pc = "begin"
    /\ specificObjects
    /\ objs' = objectsToCapture
    /\ pool' = "explicit"
    /\ idx' = 1
    /\ pc' = "scan"
    /\ UNCHANGED << tasks, requested, consulted, nearbyObjects, farObjects,
                    behaviourVars, goalsVars, eqVars, visitVars >>

\* else captureObjects(objectClusterizer->getNearbyObjects());
BeginFiltered ==
    /\ pc = "begin"
    /\ ~specificObjects
    /\ consulted' = Append(consulted, "nearby")
    /\ objs' = nearbyObjects
    /\ pool' = "nearby"
    /\ idx' = 1
    /\ pc' = "scan"
    /\ UNCHANGED << tasks, requested, nearbyObjects, farObjects,
                    behaviourVars, goalsVars, eqVars, visitVars >>

\* One turn of captureObjects' loop: the object is filtered out.
SkipObject ==
    /\ pc = "scan"
    /\ idx <= Len(objs)
    /\ ~ShouldVisitObject(objs[idx])
    /\ idx' = idx + 1
    /\ UNCHANGED << pc, pool, objs, tasks, requested, consulted, nearbyObjects,
                    farObjects, behaviourVars, goalsVars, eqVars, visitVars >>

\* One turn of captureObjects' loop: paths are requested and the goals of
\* getVisitGoals appended.  requested logs the object and how many paths
\* the pathfinder found ("Found %d paths").
VisitObject ==
    /\ pc = "scan"
    /\ idx <= Len(objs)
    /\ ShouldVisitObject(objs[idx])
    /\ \E batch \in PathInfoSamples :
          /\ requested' = Append(requested, << objs[idx], Len(batch) >>)
          /\ tasks' = tasks \o GetVisitGoals(batch, objs[idx])
    /\ idx' = idx + 1
    /\ UNCHANGED << pc, pool, objs, consulted, nearbyObjects, farObjects,
                    behaviourVars, goalsVars, eqVars, visitVars >>

\* tasks as captureObjects leaves them: untouched when objs was empty (the
\* early return), with the Invalid entries erased otherwise.
AfterCapture == IF objs = << >> THEN tasks ELSE EraseInvalid(tasks)

\* captureObjects(nearby) is over and tasks is empty: the far objects.
EndNearbyScanFar ==
    /\ pc = "scan"
    /\ idx > Len(objs)
    /\ pool = "nearby"
    /\ TasksEmpty(AfterCapture)
    /\ tasks' = AfterCapture
    /\ consulted' = Append(consulted, "far")
    /\ objs' = farObjects
    /\ pool' = "far"
    /\ idx' = 1
    /\ UNCHANGED << pc, requested, nearbyObjects, farObjects,
                    behaviourVars, goalsVars, eqVars, visitVars >>

\* The last captureObjects is over: return tasks.
EndScanReturn ==
    /\ pc = "scan"
    /\ idx > Len(objs)
    /\ ~(pool = "nearby" /\ TasksEmpty(AfterCapture))
    /\ tasks' = AfterCapture
    /\ pc' = "done"
    /\ UNCHANGED << pool, objs, idx, requested, consulted, nearbyObjects,
                    farObjects, behaviourVars, goalsVars, eqVars, visitVars >>

Next ==
    \/ BeginExplicit
    \/ BeginFiltered
    \/ SkipObject
    \/ VisitObject
    \/ EndNearbyScanFar
    \/ EndScanReturn

Spec == Init /\ [][Next]_vars

(***************************************************************************)
(* Properties of decompose() (Spec).                                       *)
(***************************************************************************)
Done == pc = "done"

RECURSIVE SumPaths(_)
SumPaths(reqs) ==
    IF reqs = << >> THEN 0 ELSE Head(reqs)[2] + SumPaths(Tail(reqs))

RequestedObjs == [ k \in 1..Len(requested) |-> requested[k][1] ]

\* The route a goal of the result is built on: the goal itself, or the
\* first step of a Composition.
RouteOf(task) == IF IsComposition(task) THEN task.subtasks[1] ELSE task

\* C1: the collection decompose() returns holds no Invalid goal.
C1_NoInvalidReturned ==
    Done => \A k \in 1..Len(tasks) : ~IsInvalid(tasks[k])

\* decompose() has returned goals, and fewer than the pathfinder found
\* paths: some path left an Invalid entry that was erased.
C1_Witness ==
    /\ Done
    /\ tasks # << >>
    /\ Len(tasks) < SumPaths(requested)

\* C5: in filtered mode the nearby objects are asked for first, and the far
\* objects only at the moment the nearby scan has left tasks empty; when
\* the far objects were not asked for, every returned goal targets a nearby
\* object.
C5_FarOnlyAfterEmptyNearby ==
    /\ [] ( ~specificObjects =>
              /\ consulted \in { << >>, << "nearby" >>, << "nearby", "far" >> }
              /\ (consulted = << >>) <=> (pc = "begin")
              /\ (Done /\ consulted = << "nearby" >>) =>
                    /\ tasks # << >>
                    /\ \A k \in 1..Len(tasks) :
                          Contains(nearbyObjects, RouteOf(tasks[k]).obj) )
    /\ [][ (~specificObjects /\ Contains(consulted', "far") /\ ~Contains(consulted, "far")) =>
              /\ pool = "nearby"
              /\ idx > Len(objs)
              /\ \A k \in 1..Len(tasks) : IsInvalid(tasks[k])
              /\ tasks' = << >> ]_vars

\* The nearby scan gave a goal, the far pool holds an object that is not
\* nearby, and decompose() returned without asking for the far pool.
C5_Witness ==
    /\ Done
    /\ ~specificObjects
    /\ tasks # << >>
    /\ consulted = << "nearby" >>
    /\ \E o \in Objs : Contains(farObjects, o) /\ ~Contains(nearbyObjects, o)

\* The type and subtype filter, written out.
PassesFilter(obj) ==
    /\ (objectTypes = << >> \/ ObjID(obj) \in Range(objectTypes))
    /\ (objectSubTypes = << >> \/ ObjSubID(obj) \in Range(objectSubTypes))

PassedFirstThree(path) ==
    /\ ~path.canKill
    /\ path.visit
    /\ ~(path.role = "SCOUT" /\ path.danger = 0 /\ path.exchangeCount > 1)

PassedSafety(path) == path.safe

\* C7 as stated: every returned goal, route or Composition, is built from a
\* path that passed all four checks.
C7_EveryGoalPassedFourChecks ==
    Done =>
        \A k \in 1..Len(tasks) :
            /\ PassedFirstThree(RouteOf(tasks[k]).path)
            /\ PassedSafety(RouteOf(tasks[k]).path)

\* C7 amended: every returned goal is built from a path that passed the
\* danger, shouldVisit and scout checks; a standalone route also passed
\* isSafeToVisit, which is not asked for the blocked path of a Composition.
C7_RoutesPassedFourCompositionsThree ==
    Done =>
        \A k \in 1..Len(tasks) :
            /\ IsRoute(tasks[k]) \/ IsComposition(tasks[k])
            /\ PassedFirstThree(RouteOf(tasks[k]).path)
            /\ IsRoute(tasks[k]) => PassedSafety(tasks[k].path)
            /\ IsComposition(tasks[k]) => RouteOf(tasks[k]).path.blocked = "valid"

\* A returned route next to a returned Composition whose path is not safe.
C7_Witness ==
    /\ Done
    /\ \E k, l \in 1..Len(tasks) :
          /\ IsRoute(tasks[k])
          /\ IsComposition(tasks[l])
          /\ ~PassedSafety(RouteOf(tasks[l]).path)

(***************************************************************************)
(* operator==.  A behaviour is its four members; operator== reads the      *)
(* object list in explicit mode and the two filter lists otherwise, so the *)
(* lists it does not read are left empty.                                  *)
(***************************************************************************)
Elements == {1, 2}

Vectors == SeqsUpTo(Elements, MaxListLen)

Behaviours ==
    [ specificObjects : {TRUE}, objectsToCapture : Vectors,
      objectTypes : { << >> }, objectSubTypes : { << >> } ]
    \cup
    [ specificObjects : {FALSE}, objectsToCapture : { << >> },
      objectTypes : Vectors, objectSubTypes : Vectors ]

\* vstd::contains_if(v1, [&](T o) { return vstd::contains(v2, o); })
VectorEquals(v1, v2) == \E i \in 1..Len(v1) : Contains(v2, v1[i])

\* CaptureObjectsBehavior::operator==
Equals(a, b) ==
    IF a.specificObjects # b.specificObjects THEN FALSE
    ELSE IF a.specificObjects
         THEN VectorEquals(a.objectsToCapture, b.objectsToCapture)
    ELSE /\ VectorEquals(a.objectTypes, b.objectTypes)
         /\ VectorEquals(a.objectSubTypes, b.objectSubTypes)

InitEq ==
    /\ IdleBehaviour /\ IdleDecompose /\ IdleGoals /\ IdleVisit
    /\ lhs \in Behaviours
    /\ rhs \in Behaviours
    /\ epc = "call"
    /\ eqResult = FALSE

CallEquals ==
    /\ epc = "call"
    /\ eqResult' = Equals(lhs, rhs)
    /\ epc' = "ret"
    /\ UNCHANGED << lhs, rhs, behaviourVars, decomposeVars, goalsVars, visitVars >>

NextEq == CallEquals

SpecEq == InitEq /\ [][NextEq]_vars

\* C2: a == b is true iff both are explicit with set-equal object lists, or
\* both are filtered with set-equal type lists and set-equal subtype lists;
\* so a == a holds for every a, also with empty lists.
SetEqual(a, b) ==
    /\ a.specificObjects = b.specificObjects
    /\ IF a.specificObjects
       THEN Range(a.objectsToCapture) = Range(b.objectsToCapture)
       ELSE /\ Range(a.objectTypes) = Range(b.objectTypes)
            /\ Range(a.objectSubTypes) = Range(b.objectSubTypes)

C2_EqualsIsSetEquality ==
    epc = "ret" =>
        /\ eqResult <=> SetEqual(lhs, rhs)
        /\ lhs = rhs => eqResult

(***************************************************************************)
(* shouldVisit(h, obj).  A query is the object (its ID and the payload of  *)
(* its type), the hero and the game state the switch reads.  Payload that  *)
(* the object's type does not have is left at its default.                 *)
(***************************************************************************)
MyPlayer == 1                       \* ai->playerID, the hero's owner
SCHOOL_GOLD == 1000
LIBRARY_LEVEL == 12
TREE_GOLD == 2000
TREE_GEMS == 10
HERO_GOLD_COST == 2500              \* GameConstants::HERO_GOLD_COST
MAX_HEROES_ON_MAP_PER_PLAYER == 8   \* VLC->modh->settings

Players == {1, 2}

GoldLevels ==
    { 0, SCHOOL_GOLD - 1, SCHOOL_GOLD, TREE_GOLD - 1, TREE_GOLD,
      HERO_GOLD_COST - 1, HERO_GOLD_COST }

GemLevels == { TREE_GEMS - 1, TREE_GEMS }

HeroLevels == { LIBRARY_LEVEL - 1, LIBRARY_LEVEL }

ManaLevels == {50, 100, 150}

ManaLimit == 100                    \* h->manaLimit()

HeroCounts == { MAX_HEROES_ON_MAP_PER_PLAYER - 1, MAX_HEROES_ON_MAP_PER_PLAYER }

\* A dwelling level: level.first (creatures available) and level.second,
\* the creatures, each with "the hero has a slot for it" and "affordable".
Creatures == [ slot : BOOLEAN, afford : BOOLEAN ]

DwellingLevels == [ first : {0, 1}, second : SeqsUpTo(Creatures, 1) ]

Dwellings == SeqsUpTo(DwellingLevels, 1)

\* The hero's slots: the number of upgrades of each slot's creature type.
Armies == SeqsUpTo({0, 1}, 2)

ObjectIDs ==
    { "TOWN", "HERO", "BORDER_GATE", "BORDERGUARD", "SEER_HUT", "QUEST_GUARD",
      "CREATURE_GENERATOR1", "HILL_FORT", "MONOLITH_ONE_WAY_ENTRANCE",
      "MONOLITH_ONE_WAY_EXIT", "MONOLITH_TWO_WAY", "WHIRLPOOL",
      "SCHOOL_OF_MAGIC", "SCHOOL_OF_WAR", "LIBRARY_OF_ENLIGHTENMENT",
      "TREE_OF_KNOWLEDGE", "MAGIC_WELL", "PRISON", "TAVERN", "BOAT",
      "EYE_OF_MAGI", "MINE" }

DefaultQuery ==
    [ ID |-> "MINE", tempOwner |-> MyPlayer, heroOwner |-> MyPlayer,
      inMyQuests |-> FALSE, questComplete |-> FALSE, keyVisited |-> FALSE,
      creatures |-> << >>, slots |-> << >>, gold |-> 0, gems |-> TREE_GEMS,
      level |-> LIBRARY_LEVEL, role |-> "MAIN", mana |-> 50,
      heroes |-> MAX_HEROES_ON_MAP_PER_PLAYER, wasVisited |-> FALSE ]

\* The queries about an object of type id.
QueriesOf(id) ==
    LET base == [DefaultQuery EXCEPT !.ID = id] IN
    CASE id \in {"TOWN", "HERO"} ->
            { [base EXCEPT !.tempOwner = o] : o \in Players }
      [] id = "BORDER_GATE" ->
            { [base EXCEPT !.inMyQuests = b] : b \in BOOLEAN }
      [] id = "BORDERGUARD" ->
            { [base EXCEPT !.keyVisited = b] : b \in BOOLEAN }
      [] id \in {"SEER_HUT", "QUEST_GUARD"} ->
            { [base EXCEPT !.inMyQuests = b, !.questComplete = c] :
                b \in BOOLEAN, c \in BOOLEAN }
      [] id = "CREATURE_GENERATOR1" ->
            { [base EXCEPT !.tempOwner = o, !.creatures = d] :
                o \in Players, d \in Dwellings }
      [] id = "HILL_FORT" ->
            { [base EXCEPT !.slots = a] : a \in Armies }
      [] id \in {"SCHOOL_OF_MAGIC", "SCHOOL_OF_WAR"} ->
            { [base EXCEPT !.gold = g] : g \in GoldLevels }
      [] id = "LIBRARY_OF_ENLIGHTENMENT" ->
            { [base EXCEPT !.level = l] : l \in HeroLevels }
      [] id = "TREE_OF_KNOWLEDGE" ->
            { [base EXCEPT !.role = r, !.gold = g, !.gems = m] :
                r \in Roles, g \in GoldLevels, m \in GemLevels }
      [] id = "MAGIC_WELL" ->
            { [base EXCEPT !.mana = m] : m \in ManaLevels }
      [] id = "PRISON" ->
            { [base EXCEPT !.heroes = n] : n \in HeroCounts }
      [] id = "TAVERN" ->
            { [base EXCEPT !.heroes = n, !.gold = g] :
                n \in HeroCounts, g \in GoldLevels }
      [] OTHER -> { base }

Queries ==
    UNION { { [q EXCEPT !.wasVisited = v] : q \in QueriesOf(id), v \in BOOLEAN } :
            id \in ObjectIDs }

\* Variant: the answer of wasMyColorVisited is negated.
BorderGuardUnopened(q) == ~q.keyVisited

\* case Obj::BORDERGUARD: return ...->wasMyColorVisited(ai->playerID);
BorderGuard(q) == q.keyVisited

\* Variant: the gold check is forgotten.
TavernNoGold(q) == ~(q.heroes >= MAX_HEROES_ON_MAP_PER_PLAYER)

\* case Obj::TAVERN: TRUE when neither `return false` is taken (the break).
Tavern(q) ==
    IF q.heroes >= MAX_HEROES_ON_MAP_PER_PLAYER THEN FALSE
    ELSE IF q.gold < HERO_GOLD_COST THEN FALSE
    ELSE TRUE

\* case Obj::CREATURE_GENERATOR1, own dwelling: the nested loops.
CanRecruit(q) ==
    \E l \in 1..Len(q.creatures) :
        \E c \in 1..Len(q.creatures[l].second) :
            /\ q.creatures[l].first # 0
            /\ q.creatures[l].second[c].slot
            /\ q.creatures[l].second[c].afford

\* The tail of shouldVisit, reached by `break` and by the types with no case.
NotVisitedYet(q) == IF q.wasVisited THEN FALSE ELSE TRUE

\* CaptureObjectsBehavior::shouldVisit
ShouldVisit(q) ==
    CASE q.ID \in {"TOWN", "HERO"} -> q.tempOwner # q.heroOwner
      [] q.ID = "BORDER_GATE" -> IF q.inMyQuests THEN FALSE ELSE TRUE
      [] q.ID = "BORDERGUARD" -> BorderGuard(q)
      [] q.ID \in {"SEER_HUT", "QUEST_GUARD"} ->
            IF q.inMyQuests THEN q.questComplete ELSE TRUE
      [] q.ID = "CREATURE_GENERATOR1" ->
            IF q.tempOwner # q.heroOwner THEN TRUE ELSE CanRecruit(q)
      [] q.ID = "HILL_FORT" -> \E k \in 1..Len(q.slots) : q.slots[k] # 0
      [] q.ID \in {"MONOLITH_ONE_WAY_ENTRANCE", "MONOLITH_ONE_WAY_EXIT",
                   "MONOLITH_TWO_WAY", "WHIRLPOOL"} -> FALSE
      [] q.ID \in {"SCHOOL_OF_MAGIC", "SCHOOL_OF_WAR"} ->
            IF q.gold < SCHOOL_GOLD THEN FALSE ELSE NotVisitedYet(q)
      [] q.ID = "LIBRARY_OF_ENLIGHTENMENT" ->
            IF q.level < LIBRARY_LEVEL THEN FALSE ELSE NotVisitedYet(q)
      [] q.ID = "TREE_OF_KNOWLEDGE" ->
            IF q.role = "SCOUT" THEN FALSE
            ELSE IF q.gold < TREE_GOLD \/ q.gems < TREE_GEMS THEN FALSE
            ELSE NotVisitedYet(q)
      [] q.ID = "MAGIC_WELL" -> q.mana < ManaLimit
      [] q.ID = "PRISON" -> q.heroes < MAX_HEROES_ON_MAP_PER_PLAYER
      [] q.ID = "TAVERN" -> IF ~Tavern(q) THEN FALSE ELSE NotVisitedYet(q)
      [] q.ID \in {"BOAT", "EYE_OF_MAGI"} -> FALSE
      [] OTHER -> NotVisitedYet(q)

InitVisit ==
    /\ IdleBehaviour /\ IdleDecompose /\ IdleGoals /\ IdleEq
    /\ query \in Queries
    /\ vpc = "call"
    /\ visitResult = FALSE

CallShouldVisit ==
    /\ vpc = "call"
    /\ visitResult' = ShouldVisit(query)
    /\ vpc' = "ret"
    /\ UNCHANGED << query, behaviourVars, decomposeVars, goalsVars, eqVars >>

NextVisit == CallShouldVisit

SpecVisit == InitVisit /\ [][NextVisit]_vars

Answered == vpc = "ret"

\* C8 as stated: for a border guard shouldVisit is true only if the player
\* has not yet unlocked the key, and false once the key is unlocked.
C8_GuardVisitedOnlyWhileLocked ==
    (Answered /\ query.ID = "BORDERGUARD") =>
        /\ visitResult => ~query.keyVisited
        /\ query.keyVisited => ~visitResult

\* C8 amended: for a border guard shouldVisit is true iff the player has
\* already visited the keymaster of its colour (the guard can be opened),
\* whatever the already-visited state.
C8_GuardVisitedIffKeyHeld ==
    (Answered /\ query.ID = "BORDERGUARD") =>
        (visitResult <=> query.keyVisited)

\* A border guard whose key the player holds: shouldVisit answered true.
C8_Witness ==
    /\ Answered
    /\ query.ID = "BORDERGUARD"
    /\ query.keyVisited
    /\ visitResult

\* C9 as stated: for a tavern shouldVisit is true iff the hero count is
\* below the cap and gold covers the recruitment cost, whatever the
\* already-visited state.
C9_TavernIffCapAndGold ==
    (Answered /\ query.ID = "TAVERN") =>
        ( visitResult <=>
            ( /\ query.heroes < MAX_HEROES_ON_MAP_PER_PLAYER
              /\ query.gold >= HERO_GOLD_COST ) )

\* C9 amended: for a tavern shouldVisit is true iff the hero count is below
\* the cap, gold covers the recruitment cost and the hero has not visited
\* the tavern yet: the tavern falls through to the already-visited check.
C9_TavernIffCapGoldAndUnvisited ==
    (Answered /\ query.ID = "TAVERN") =>
        ( visitResult <=>
            ( /\ query.heroes < MAX_HEROES_ON_MAP_PER_PLAYER
              /\ query.gold >= HERO_GOLD_COST
              /\ ~query.wasVisited ) )

\* A tavern under the cap with enough gold, already visited: answered false.
C9_Witness ==
    /\ Answered
    /\ query.ID = "TAVERN"
    /\ query.heroes < MAX_HEROES_ON_MAP_PER_PLAYER
    /\ query.gold >= HERO_GOLD_COST
    /\ query.wasVisited
    /\ ~visitResult

====
